---- MODULE Spec2Model ----
(***************************************************************************)
(* Model of the slog -> zerolog handler (zslog/slog.go, and its twin in    *)
(* package zerolog): the severity mapper zerologLevel, the value           *)
(* dispatcher mapAttr / mapAttrAny, and the Handler operations Enabled,    *)
(* Handle, WithAttrs and WithGroup.  The zerolog Logger / Context / Event  *)
(* builders the handler drives are modelled as token buffers: a field, a   *)
(* group opening or a group closing per token, in the order written.       *)
(***************************************************************************)
EXTENDS Integers, Sequences, FiniteSets

VARIABLES hs, optsHeap, chain, out, last

vars == <<hs, optsHeap, chain, out, last>>

-----------------------------------------------------------------------------
(* Bounds of the model.                                                    *)

\* Front-end levels range over LevelDebug - LevelSpan .. LevelError + LevelSpan.
LevelSpan == 2
\* Handlers alive at once in the general specification (the root included).
MaxHandlers == 3
\* Derivations in a single WithAttrs/WithGroup chain (SpecChain).
MaxChain == 4
\* Records the sink accepts before the run stops writing.
MaxOut == 2

-----------------------------------------------------------------------------
(* Levels.                                                                 *)

\* log/slog levels
LevelDebug == -4
LevelInfo == 0
LevelWarn == 4
LevelError == 8

\* zerolog levels
TraceLevel == -1
DebugLevel == 0
InfoLevel == 1
WarnLevel == 2
ErrorLevel == 3

SlogLevels == (LevelDebug - LevelSpan)..(LevelError + LevelSpan)
ZLevels == TraceLevel..ErrorLevel

\* zerologLevel with the first bucket's bound off by one (lvl <= LevelDebug).
zerologLevelOffByOne(lvl) ==
    IF lvl <= LevelDebug THEN TraceLevel
    ELSE IF lvl < LevelInfo THEN DebugLevel
    ELSE IF lvl < LevelWarn THEN InfoLevel
    ELSE IF lvl < LevelError THEN WarnLevel
    ELSE ErrorLevel

\* zerologLevel maps slog.Level into zerolog.Level.
zerologLevel(lvl) ==
    IF lvl < LevelDebug THEN TraceLevel
    ELSE IF lvl < LevelInfo THEN DebugLevel
    ELSE IF lvl < LevelWarn THEN InfoLevel
    ELSE IF lvl < LevelError THEN WarnLevel
    ELSE ErrorLevel

-----------------------------------------------------------------------------
(* Field names and level strings of the back end.                          *)

LevelFieldName == "level"
TimestampFieldName == "time"
MessageFieldName == "message"
CallerFieldName == "caller"

LevelString(l) ==
    IF l = TraceLevel THEN "trace"
    ELSE IF l = DebugLevel THEN "debug"
    ELSE IF l = InfoLevel THEN "info"
    ELSE IF l = WarnLevel THEN "warn"
    ELSE "error"

-----------------------------------------------------------------------------
(* Tokens of a builder's buffer.                                           *)

Field(k, m, v) == [t |-> "field", k |-> k, m |-> m, v |-> v]
Open(k) == [t |-> "open", k |-> k, m |-> "", v |-> ""]
Close == [t |-> "close", k |-> "", m |-> "", v |-> ""]

-----------------------------------------------------------------------------
(* The builder shared by zerolog.Context and *zerolog.Event: the buffer,   *)
(* the stack of open groups, and the level (the logger's for a Context,    *)
(* the event's for an Event).  A nil *Event ignores every write.           *)

NilEvent == [nil |-> TRUE, buf |-> <<>>, groups |-> <<>>, lvl |-> 0]

Write(w, tok) == IF w.nil THEN w ELSE [w EXCEPT !.buf = Append(@, tok)]

Bool(w, k, v) == Write(w, Field(k, "Bool", v))
Dur(w, k, v) == Write(w, Field(k, "Dur", v))
Float64(w, k, v) == Write(w, Field(k, "Float64", v))
Int64(w, k, v) == Write(w, Field(k, "Int64", v))
Str(w, k, v) == Write(w, Field(k, "Str", v))
Time(w, k, v) == Write(w, Field(k, "Time", v))
Uint64(w, k, v) == Write(w, Field(k, "Uint64", v))
Interface(w, k, v) == Write(w, Field(k, "Interface", v))
AnErr(w, k, v) == Write(w, Field(k, "AnErr", v))
Stringer(w, k, v) == Write(w, Field(k, "Stringer", v))
IPAddr(w, k, v) == Write(w, Field(k, "IPAddr", v))
IPPrefix(w, k, v) == Write(w, Field(k, "IPPrefix", v))
MACAddr(w, k, v) == Write(w, Field(k, "MACAddr", v))
RawJSON(w, k, v) == Write(w, Field(k, "RawJSON", v))

\* Context.Group / Event openGroup: push a group.
openGroup(w, name) ==
    IF w.nil THEN w
    ELSE [w EXCEPT !.buf = Append(@, Open(name)), !.groups = Append(@, name)]

\* Event.Ungroup / closeGroup: close n groups, all of them when n < 0.
RECURSIVE closeGroup(_, _)
closeGroup(w, n) ==
    IF w.nil \/ n = 0 \/ Len(w.groups) = 0 THEN w
    ELSE closeGroup([w EXCEPT !.buf = Append(@, Close),
                              !.groups = SubSeq(@, 1, Len(@) - 1)],
                    IF n < 0 THEN n ELSE n - 1)

\* Grouped / grouped: the callback's writes land in a group named name, which
\* is closed afterwards.  inner is what the callback returns when it is given
\* openGroup(w, name).
Grouped(w, name, inner) == closeGroup(inner, 1)

\* Logger.With, Context.Logger, Logger.Level, Logger.GetLevel
With(l) == [nil |-> FALSE, buf |-> l.context, groups |-> l.groups, lvl |-> l.level]
ToLogger(c) == [level |-> c.lvl, context |-> c.buf, groups |-> c.groups]
Level(l, lvl) == [l EXCEPT !.level = lvl]
GetLevel(l) == l.level

\* Logger.WithLevel: nil when the logger's level filters lvl out; else a new
\* event holding the level field and then the logger's context.
WithLevel(l, lvl) ==
    IF lvl < l.level THEN NilEvent
    ELSE [nil |-> FALSE,
          buf |-> <<Field(LevelFieldName, "Str", LevelString(lvl))>> \o l.context,
          groups |-> l.groups,
          lvl |-> lvl]

\* Event.Msg: the message field, then the event as it stands goes to the sink.
Msg(e, msg) == Str(e, MessageFieldName, msg)

-----------------------------------------------------------------------------
(* slog attributes and records.  An attribute is a key and a value of one  *)
(* kind; str carries the payload of the scalar kinds, group the children   *)
(* of a Group, any the value of an Any.  Values are already resolved (no   *)
(* LogValuer kind), so Value.Resolve returns them as they are.             *)

NilErr == "<nil>"

NoAny == [dyn |-> "", caps |-> {}, jerr |-> NilErr, terr |-> NilErr]

Scalar(kind, k, v) == [key |-> k, kind |-> kind, str |-> v, group |-> <<>>, any |-> NoAny]
String(k, v) == Scalar("String", k, v)
Group(k, as) == [key |-> k, kind |-> "Group", str |-> "", group |-> as, any |-> NoAny]
Any(k, x) == [key |-> k, kind |-> "Any", str |-> "", group |-> <<>>, any |-> x]

\* The methods of an Any value, for the capabilities it has.
ErrorOf(x) == "yo"
StringOf(x) == "stringer"
MarshalJSON(x) == [txt |-> "{\"foo\": \"bar\"}", err |-> x.jerr]
MarshalText(x) == [txt |-> "marshaller", err |-> x.terr]
AddrOf(x) == "addr"
ReflectOf(x) == "reflect"

isEmptyGroup(a) == a.kind = "Group" /\ Len(a.group) = 0

\* slog.NewRecord and Record.AddAttrs (which omits empty groups).
NewRecord(t, lvl, msg, pc) ==
    [Time |-> t, Level |-> lvl, Message |-> msg, PC |-> pc, attrs |-> <<>>]
AddAttrs(r, as) ==
    [r EXCEPT !.attrs = @ \o SelectSeq(as, LAMBDA a : ~isEmptyGroup(a))]

\* runtime.CallersFrames(pc).Next() formatted as file:line.
FrameOf(pc) == "file.go:1"

-----------------------------------------------------------------------------
(* The value dispatcher.                                                   *)

\* mapAttrAny with the Stringer and json.Marshaler cases swapped.
mapAttrAnyJSONFirst(target, key, value) ==
    IF value.dyn = "net.IP" THEN IPAddr(target, key, AddrOf(value))
    ELSE IF value.dyn = "net.IPNet" THEN IPPrefix(target, key, AddrOf(value))
    ELSE IF value.dyn = "net.HardwareAddr" THEN MACAddr(target, key, AddrOf(value))
    ELSE IF "error" \in value.caps THEN AnErr(target, key, ErrorOf(value))
    ELSE IF "json.Marshaler" \in value.caps THEN
        LET r == MarshalJSON(value) IN
        IF r.err = NilErr THEN RawJSON(target, key, r.txt)
        ELSE Str(target, key, "!ERROR:" \o r.err)
    ELSE IF "fmt.Stringer" \in value.caps THEN Stringer(target, key, StringOf(value))
    ELSE IF "encoding.TextMarshaler" \in value.caps THEN
        LET r == MarshalText(value) IN
        IF r.err = NilErr THEN Str(target, key, r.txt)
        ELSE Str(target, key, "!ERROR:" \o r.err)
    ELSE Interface(target, key, ReflectOf(value))

\* mapAttrAny that writes what the marshal call returned even when it failed.
mapAttrAnyIgnoreErr(target, key, value) ==
    IF value.dyn = "net.IP" THEN IPAddr(target, key, AddrOf(value))
    ELSE IF value.dyn = "net.IPNet" THEN IPPrefix(target, key, AddrOf(value))
    ELSE IF value.dyn = "net.HardwareAddr" THEN MACAddr(target, key, AddrOf(value))
    ELSE IF "error" \in value.caps THEN AnErr(target, key, ErrorOf(value))
    ELSE IF "fmt.Stringer" \in value.caps THEN Stringer(target, key, StringOf(value))
    ELSE IF "json.Marshaler" \in value.caps THEN
        RawJSON(target, key, MarshalJSON(value).txt)
    ELSE IF "encoding.TextMarshaler" \in value.caps THEN
        Str(target, key, MarshalText(value).txt)
    ELSE Interface(target, key, ReflectOf(value))

mapAttrAny(target, key, value) ==
    IF value.dyn = "net.IP" THEN IPAddr(target, key, AddrOf(value))
    ELSE IF value.dyn = "net.IPNet" THEN IPPrefix(target, key, AddrOf(value))
    ELSE IF value.dyn = "net.HardwareAddr" THEN MACAddr(target, key, AddrOf(value))
    ELSE IF "error" \in value.caps THEN AnErr(target, key, ErrorOf(value))
    ELSE IF "fmt.Stringer" \in value.caps THEN Stringer(target, key, StringOf(value))
    ELSE IF "json.Marshaler" \in value.caps THEN
        LET r == MarshalJSON(value) IN
        IF r.err = NilErr THEN RawJSON(target, key, r.txt)
        ELSE Str(target, key, "!ERROR:" \o r.err)
    ELSE IF "encoding.TextMarshaler" \in value.caps THEN
        LET r == MarshalText(value) IN
        IF r.err = NilErr THEN Str(target, key, r.txt)
        ELSE Str(target, key, "!ERROR:" \o r.err)
    ELSE Interface(target, key, ReflectOf(value))

RECURSIVE mapAttrs(_, _)
RECURSIVE mapAttr(_, _)

\* mapAttr that skips a group with no children.
mapAttrSkipEmpty(target, a) ==
    IF a.kind = "Group" THEN
        IF Len(a.group) = 0 THEN target
        ELSE Grouped(target, a.key, mapAttrs(openGroup(target, a.key), a.group))
    ELSE IF a.kind = "Bool" THEN Bool(target, a.key, a.str)
    ELSE IF a.kind = "Duration" THEN Dur(target, a.key, a.str)
    ELSE IF a.kind = "Float64" THEN Float64(target, a.key, a.str)
    ELSE IF a.kind = "Int64" THEN Int64(target, a.key, a.str)
    ELSE IF a.kind = "String" THEN Str(target, a.key, a.str)
    ELSE IF a.kind = "Time" THEN Time(target, a.key, a.str)
    ELSE IF a.kind = "Uint64" THEN Uint64(target, a.key, a.str)
    ELSE mapAttrAny(target, a.key, a.any)

\* mapAttr writes slog.Attr into the target, a Context or an Event.
mapAttr(target, a) ==
    IF a.kind = "Group" THEN Grouped(target, a.key, mapAttrs(openGroup(target, a.key), a.group))
    ELSE IF a.kind = "Bool" THEN Bool(target, a.key, a.str)
    ELSE IF a.kind = "Duration" THEN Dur(target, a.key, a.str)
    ELSE IF a.kind = "Float64" THEN Float64(target, a.key, a.str)
    ELSE IF a.kind = "Int64" THEN Int64(target, a.key, a.str)
    ELSE IF a.kind = "String" THEN Str(target, a.key, a.str)
    ELSE IF a.kind = "Time" THEN Time(target, a.key, a.str)
    ELSE IF a.kind = "Uint64" THEN Uint64(target, a.key, a.str)
    ELSE mapAttrAny(target, a.key, a.any)

\* mapAttrs writes multiple slog.Attr into the target, in order.
mapAttrs(target, as) ==
    IF as = <<>> THEN target
    ELSE mapAttrs(mapAttr(target, Head(as)), Tail(as))

-----------------------------------------------------------------------------
(* The handler.  hs is the heap of Handler objects, optsHeap the heap of   *)
(* HandlerOptions objects; a Handler holds a pointer into optsHeap and a   *)
(* Logger by value.                                                        *)

NoLeveler == [set |-> FALSE, lvl |-> 0]
Leveler(l) == [set |-> TRUE, lvl |-> l]

NilOptions == [nil |-> TRUE, AddSource |-> FALSE, Level |-> NoLeveler]
Options(src, lv) == [nil |-> FALSE, AddSource |-> src, Level |-> lv]

\* zerolog.New(out).Level(lvl): no context, no open group.
NewLogger(lvl) == [level |-> lvl, context |-> <<>>, groups |-> <<>>]

\* NewHandler: the options are copied into a fresh object (nil: the defaults).
NewHandlerOpts(opts) ==
    IF opts.nil THEN [AddSource |-> FALSE, Level |-> NoLeveler]
    ELSE [AddSource |-> opts.AddSource, Level |-> opts.Level]
NewHandler(logger, optsRef) == [opts |-> optsRef, logger |-> logger]

\* Enabled that compares in back-end units also when a minimum level is set.
EnabledBackendUnits(h, lvl) ==
    IF optsHeap[h.opts].Level.set
    THEN zerologLevel(lvl) >= zerologLevel(optsHeap[h.opts].Level.lvl)
    ELSE zerologLevel(lvl) >= GetLevel(h.logger)

\* Enabled implements slog.Handler.
Enabled(h, lvl) ==
    IF optsHeap[h.opts].Level.set
    THEN lvl >= optsHeap[h.opts].Level.lvl
    ELSE zerologLevel(lvl) >= GetLevel(h.logger)

\* Handle's logger that ignores the minimum-level option.
HandleLoggerNoOverride(h) == h.logger

\* Handle, lines 74-77: the logger, at the option's level when one is set.
HandleLogger(h) ==
    IF optsHeap[h.opts].Level.set
    THEN Level(h.logger, zerologLevel(optsHeap[h.opts].Level.lvl))
    ELSE h.logger

\* Handle that checks Enabled itself and drops what it disables.
HandleEventSelfFilter(h, rec) ==
    IF ~Enabled(h, rec.Level) THEN NilEvent
    ELSE WithLevel(HandleLogger(h), zerologLevel(rec.Level))

\* Handle, line 78: the event, at the record's mapped level.
HandleEvent(h, rec) == WithLevel(HandleLogger(h), zerologLevel(rec.Level))

\* Handle, lines 80-83: every attribute of the record, in order.
RECURSIVE HandleAttrs(_, _)
HandleAttrs(evt, as) ==
    IF as = <<>> THEN evt
    ELSE HandleAttrs(mapAttr(evt, Head(as)), Tail(as))

\* Handle, lines 85-88: the call site.
HandleSource(h, evt, rec) ==
    IF optsHeap[h.opts].AddSource /\ rec.PC > 0
    THEN Str(evt, CallerFieldName, FrameOf(rec.PC))
    ELSE evt

\* Handle's ungroup that closes only the innermost group.
HandleUngroupOne(evt) == closeGroup(evt, 1)

\* Handle, line 89: close every open group.
HandleUngroup(evt) == closeGroup(evt, -1)

\* Handle that writes the call site after the groups are closed.
HandleSourceAfterUngroup(h, rec) ==
    Msg(Time(HandleSource(h, HandleUngroup(HandleAttrs(HandleEvent(h, rec), rec.attrs)), rec),
             TimestampFieldName, rec.Time),
        rec.Message)

\* Handle implements slog.Handler: the event handed to the sink (nil: none).
Handle(h, rec) ==
    Msg(Time(HandleUngroup(HandleSource(h, HandleAttrs(HandleEvent(h, rec), rec.attrs), rec)),
             TimestampFieldName, rec.Time),
        rec.Message)

\* WithAttrs that binds the attributes on the receiver's own logger as well.
WithAttrsInPlace(pool, i, attrs) ==
    LET l == ToLogger(mapAttrs(With(pool[i].logger), attrs))
    IN  Append([pool EXCEPT ![i].logger = l], [opts |-> pool[i].opts, logger |-> l])

\* WithAttrs implements slog.Handler: a new Handler object.
WithAttrs(pool, i, attrs) ==
    Append(pool, [opts |-> pool[i].opts,
                  logger |-> ToLogger(mapAttrs(With(pool[i].logger), attrs))])

\* WithGroup whose group is closed again before the logger is taken.
WithGroupClosed(pool, i, name) ==
    Append(pool, [opts |-> pool[i].opts,
                  logger |-> ToLogger(closeGroup(openGroup(With(pool[i].logger), name), 1))])

\* WithGroup implements slog.Handler: a new Handler object.
WithGroup(pool, i, name) ==
    Append(pool, [opts |-> pool[i].opts,
                  logger |-> ToLogger(openGroup(With(pool[i].logger), name))])

-----------------------------------------------------------------------------
(* State.  chain[i] is the list of WithAttrs/WithGroup calls that led from *)
(* the root handler to hs[i]; out is the sink (records written since the   *)
(* last reset, and the last one); last is the last call and its result.    *)

NoRec == NewRecord("", 0, "", 0)
NoCall == [op |-> "none", h |-> 0, lvl |-> 0, ret |-> FALSE, rec |-> NoRec,
           args |-> <<>>, n0 |-> 0, err |-> NilErr]
EmptySink == [n |-> 0, buf |-> <<>>, open |-> 0]

ChainAttrs(as) == [op |-> "WithAttrs", name |-> "", attrs |-> as]
ChainGroup(g) == [op |-> "WithGroup", name |-> g, attrs |-> <<>>]

InitWith(loggerLevels, options) ==
    \E lvl \in loggerLevels, o \in options :
        /\ optsHeap = <<NewHandlerOpts(o)>>
        /\ hs = <<NewHandler(NewLogger(lvl), 1)>>
        /\ chain = << <<>> >>
        /\ out = EmptySink
        /\ last = NoCall

EnabledStep(levels) ==
    \E i \in 1..Len(hs), l \in levels :
        /\ last' = [NoCall EXCEPT !.op = "Enabled", !.h = i, !.lvl = l,
                                  !.ret = Enabled(hs[i], l), !.n0 = out.n]
        /\ UNCHANGED <<hs, optsHeap, chain, out>>

\* A caller logs a record: NewRecord, AddAttrs(args...), Handle.
HandleStep(handlers, levels, pcs, argLists) ==
    /\ out.n < MaxOut
    /\ \E i \in handlers, l \in levels, pc \in pcs, args \in argLists :
        LET rec == AddAttrs(NewRecord("now", l, "foobar", pc), args)
            e == Handle(hs[i], rec)
        IN
        /\ out' = IF e.nil THEN out
                  ELSE [n |-> out.n + 1, buf |-> e.buf, open |-> Len(e.groups)]
        /\ last' = [NoCall EXCEPT !.op = "Handle", !.h = i, !.lvl = l,
                                  !.rec = rec, !.args = args, !.n0 = out.n]
    /\ UNCHANGED <<hs, optsHeap, chain>>

WithAttrsStep(parents, lists, limit) ==
    /\ Len(hs) < limit
    /\ \E i \in parents, as \in lists :
        /\ hs' = WithAttrs(hs, i, as)
        /\ chain' = Append(chain, Append(chain[i], ChainAttrs(as)))
        /\ last' = [NoCall EXCEPT !.op = "WithAttrs", !.h = i, !.n0 = out.n]
    /\ UNCHANGED <<optsHeap, out>>

WithGroupStep(parents, names, limit) ==
    /\ Len(hs) < limit
    /\ \E i \in parents, g \in names :
        /\ hs' = WithGroup(hs, i, g)
        /\ chain' = Append(chain, Append(chain[i], ChainGroup(g)))
        /\ last' = [NoCall EXCEPT !.op = "WithGroup", !.h = i, !.n0 = out.n]
    /\ UNCHANGED <<optsHeap, out>>

\* bytes.Buffer.Reset on the sink, as the tests do between records.
ResetStep ==
    /\ out.n > 0
    /\ out' = EmptySink
    /\ last' = [NoCall EXCEPT !.op = "Reset", !.n0 = out.n]
    /\ UNCHANGED <<hs, optsHeap, chain>>

-----------------------------------------------------------------------------
(* Inputs.                                                                 *)

Attr1 == String("attr", "the attr")
AttrEmpty == Group("empty", <<>>)
AttrGroup == Group("group", <<String("bar", "baz")>>)

GroupNames == {"testgroup", "subgroup"}

\* The values of kind Any: the net types with the method sets they have, and
\* every combination of the four interfaces on another type (a marshal call
\* can fail only on a type that has it).
Caps == {"error", "fmt.Stringer", "json.Marshaler", "encoding.TextMarshaler"}
JSONErrs == {NilErr, "json failure"}
TextErrs == {NilErr, "text failure"}
AnyValues ==
    {[dyn |-> "net.IP", caps |-> {"fmt.Stringer", "encoding.TextMarshaler"},
      jerr |-> NilErr, terr |-> NilErr],
     [dyn |-> "net.IPNet", caps |-> {}, jerr |-> NilErr, terr |-> NilErr],
     [dyn |-> "net.HardwareAddr", caps |-> {"fmt.Stringer"},
      jerr |-> NilErr, terr |-> NilErr]}
    \cup {x \in [dyn : {"other"}, caps : SUBSET Caps, jerr : JSONErrs, terr : TextErrs] :
            /\ "json.Marshaler" \notin x.caps => x.jerr = NilErr
            /\ "encoding.TextMarshaler" \notin x.caps => x.terr = NilErr}

AnyLists == {<<Any("v", x), String("titi", "toto")>> : x \in AnyValues}

-----------------------------------------------------------------------------
(* Specifications.                                                         *)

\* General: any handler derives any handler; levels at and around the buckets.
Init ==
    InitWith({InfoLevel},
             {NilOptions, Options(TRUE, NoLeveler),
              Options(FALSE, Leveler(LevelWarn + 1))})

Next ==
    \/ EnabledStep({LevelDebug, LevelWarn})
    \/ HandleStep(1..Len(hs), {LevelDebug, LevelWarn}, {0, 1},
                  {<<>>, <<Attr1, AttrGroup>>})
    \/ WithAttrsStep(1..Len(hs), {<<Attr1>>}, MaxHandlers)
    \/ WithGroupStep(1..Len(hs), {"testgroup"}, MaxHandlers)
    \/ ResetStep

Spec == Init /\ [][Next]_vars

\* Levels: every minimum level, every logger level, every record level.
InitLevels ==
    InitWith(ZLevels, {NilOptions} \cup {Options(FALSE, Leveler(m)) : m \in SlogLevels})

NextLevels ==
    \/ EnabledStep(SlogLevels)
    \/ HandleStep(1..Len(hs), SlogLevels, {0}, {<<>>})
    \/ ResetStep

SpecLevels == InitLevels /\ [][NextLevels]_vars

\* Chains: a handler derived step by step, each step from the newest handler.
InitChain == InitWith({InfoLevel}, {NilOptions})

NextChain ==
    \/ WithAttrsStep({Len(hs)}, {<<Attr1>>, <<AttrEmpty, AttrGroup>>}, MaxChain + 1)
    \/ WithGroupStep({Len(hs)}, GroupNames, MaxChain + 1)
    \/ HandleStep(1..Len(hs), {LevelWarn}, {0},
                  {<<>>, <<Attr1, AttrEmpty>>, <<AttrEmpty, Attr1, AttrGroup>>})
    \/ ResetStep

SpecChain == InitChain /\ [][NextChain]_vars

\* Any: one value of kind Any, of every type and capability set.
InitAny == InitWith({InfoLevel}, {NilOptions})

NextAny ==
    \/ WithAttrsStep({1}, AnyLists, 2)
    \/ HandleStep({1}, {LevelWarn}, {0}, AnyLists)
    \/ HandleStep(2..Len(hs), {LevelWarn}, {0}, {<<>>})
    \/ ResetStep

SpecAny == InitAny /\ [][NextAny]_vars

-----------------------------------------------------------------------------
(* Reading the sink.                                                       *)

\* The last call was a Handle and it wrote a record.
Wrote == last.op = "Handle" /\ out.n = last.n0 + 1

\* The groups open just before token i of buf.
DepthAt(buf, i) ==
    Cardinality({j \in 1..(i - 1) : buf[j].t = "open"})
    - Cardinality({j \in 1..(i - 1) : buf[j].t = "close"})

\* The level field a record of back-end level z starts with.
LevelField(z) == Field(LevelFieldName, "Str", LevelString(z))

\* The table of section 4.1: the half-open bucket of each back-end level.
InBucket(l, z) ==
    \/ z = TraceLevel /\ l < LevelDebug
    \/ z = DebugLevel /\ LevelDebug <= l /\ l < LevelInfo
    \/ z = InfoLevel /\ LevelInfo <= l /\ l < LevelWarn
    \/ z = WarnLevel /\ LevelWarn <= l /\ l < LevelError
    \/ z = ErrorLevel /\ LevelError <= l

Bucket(l) == CHOOSE z \in ZLevels : InBucket(l, z)

\* The calibration set of the tests and of section 8.
Calibration ==
    {<<LevelDebug - 1, "trace">>, <<LevelDebug, "debug">>, <<LevelInfo - 1, "debug">>,
     <<LevelInfo, "info">>, <<LevelWarn - 1, "info">>, <<LevelWarn, "warn">>,
     <<LevelWarn + 1, "warn">>, <<LevelError - 1, "warn">>, <<LevelError, "error">>,
     <<LevelError + 1, "error">>}

LastOpts == optsHeap[hs[last.h].opts]

\* The back-end level a handler's records are filtered at.
EffectiveLevel(h) ==
    IF optsHeap[h.opts].Level.set THEN Bucket(optsHeap[h.opts].Level.lvl)
    ELSE h.logger.level

\* The tokens of a list of attributes, read off the attributes' structure: a
\* group is its opening, its children and its closing.
RECURSIVE Flat(_)
Flat(as) ==
    IF as = <<>> THEN <<>>
    ELSE LET a == Head(as) IN
         (IF a.kind = "Group" THEN <<Open(a.key)>> \o Flat(a.group) \o <<Close>>
          ELSE mapAttr([NilEvent EXCEPT !.nil = FALSE], a).buf)
         \o Flat(Tail(as))

\* What a chain of WithAttrs/WithGroup calls wraps around the tokens inner.
RECURSIVE Layered(_, _)
Layered(ch, inner) ==
    IF ch = <<>> THEN inner
    ELSE IF Head(ch).op = "WithGroup"
         THEN <<Open(Head(ch).name)>> \o Layered(Tail(ch), inner) \o <<Close>>
         ELSE Flat(Head(ch).attrs) \o Layered(Tail(ch), inner)

\* The zero-child groups among a list of attributes, and bound along a chain.
EmptyIn(as) == Cardinality({j \in 1..Len(as) : isEmptyGroup(as[j])})
RECURSIVE BoundEmpty(_)
BoundEmpty(ch) ==
    IF ch = <<>> THEN 0 ELSE EmptyIn(Head(ch).attrs) + BoundEmpty(Tail(ch))

\* The places of buf where key k is mapped to an empty object.
EmptyObjects(buf, k) ==
    Cardinality({i \in 1..(Len(buf) - 1) : buf[i] = Open(k) /\ buf[i + 1] = Close})

TimeField == Field(TimestampFieldName, "Time", last.rec.Time)
MessageField == Field(MessageFieldName, "Str", last.rec.Message)
CallerFields ==
    IF LastOpts.AddSource /\ last.rec.PC > 0
    THEN <<Field(CallerFieldName, "Str", FrameOf(last.rec.PC))>> ELSE <<>>

\* The capability probe of section 4.2, in its order; a value matches an entry
\* by its type or by an interface it has.
Probe == <<"net.IP", "net.IPNet", "net.HardwareAddr", "error", "fmt.Stringer",
           "json.Marshaler", "encoding.TextMarshaler">>
Has(x, c) == x.dyn = c \/ c \in x.caps
FirstMatch(x) ==
    IF \E i \in 1..Len(Probe) : Has(x, Probe[i])
    THEN CHOOSE i \in 1..Len(Probe) :
            Has(x, Probe[i]) /\ \A j \in 1..(i - 1) : ~Has(x, Probe[j])
    ELSE Len(Probe) + 1

\* The entry of the probe a written field comes from (the reflective fallback
\* counts as the entry after the last).
PathOf(tok) ==
    IF tok.m = "IPAddr" THEN 1
    ELSE IF tok.m = "IPPrefix" THEN 2
    ELSE IF tok.m = "MACAddr" THEN 3
    ELSE IF tok.m = "AnErr" THEN 4
    ELSE IF tok.m = "Stringer" THEN 5
    ELSE IF tok.m = "RawJSON" \/ (tok.m = "Str" /\ tok.v = "!ERROR:json failure") THEN 6
    ELSE IF tok.m = "Str" THEN 7
    ELSE IF tok.m = "Interface" THEN 8
    ELSE 0

\* The marshal call that mapAttrAny makes on x fails, with this message.
MarshalFails(x) ==
    \/ FirstMatch(x) = 6 /\ x.jerr # NilErr
    \/ FirstMatch(x) = 7 /\ x.terr # NilErr
MarshalError(x) == IF FirstMatch(x) = 6 THEN x.jerr ELSE x.terr

\* The attributes handler i was given by its one WithAttrs call.
BoundList(i) == chain[i][1].attrs

-----------------------------------------------------------------------------
(* Claims.                                                                 *)

\* C1: zerologLevel maps every front-end level into exactly one back-end level,
\* the one whose half-open bucket holds it: the level field of every record
\* written is that of the one bucket holding the record's level, and the
\* calibration values map as the table says.
C1_LevelBuckets ==
    Wrote =>
        /\ \E z \in ZLevels :
              /\ InBucket(last.lvl, z)
              /\ \A y \in ZLevels \ {z} : ~InBucket(last.lvl, y)
              /\ out.buf[1] = LevelField(z)
        /\ \A c \in Calibration : last.lvl = c[1] => out.buf[1].v = c[2]

C1_Witness ==
    /\ Wrote
    /\ last.lvl = LevelInfo - 1
    /\ out.buf[1].v = "debug"

\* C2: with a minimum level m, Enabled(l) is l >= m in front-end units whatever
\* the logger's level; without one it is toBackend(l) >= the logger's level.
C2_EnabledDualPath ==
    last.op = "Enabled" =>
        IF LastOpts.Level.set
        THEN last.ret = (last.lvl >= LastOpts.Level.lvl)
        ELSE last.ret = (Bucket(last.lvl) >= hs[last.h].logger.level)

\* Warn against a minimum of Warn+1: disabled in front-end units, though both
\* map to the same back-end level and the logger's own level would let it pass.
C2_Witness ==
    /\ last.op = "Enabled"
    /\ LastOpts.Level.set
    /\ LastOpts.Level.lvl = LevelWarn + 1
    /\ last.lvl = LevelWarn
    /\ hs[last.h].logger.level = TraceLevel
    /\ last.ret = FALSE

\* C3 as stated: every call to Handle writes exactly one record.
C3_AlwaysWrites == last.op = "Handle" => out.n = last.n0 + 1

\* C3, amended: Handle writes one record when the record's back-end level is at
\* least the back-end level in force (that of the minimum level when one is
\* set, else the logger's), and none otherwise; Enabled is not consulted, so
\* Warn against a minimum of Warn+1 is written.
C3_WritesIffBackendPasses ==
    last.op = "Handle" =>
        /\ out.n = last.n0 + (IF Bucket(last.lvl) >= EffectiveLevel(hs[last.h])
                              THEN 1 ELSE 0)
        /\ (LastOpts.Level.set /\ LastOpts.Level.lvl = LevelWarn + 1
            /\ last.lvl = LevelWarn) => out.n = last.n0 + 1

C3_Witness ==
    /\ Wrote
    /\ LastOpts.Level.set
    /\ LastOpts.Level.lvl = LevelWarn + 1
    /\ last.lvl = LevelWarn
    /\ ~Enabled(hs[last.h], last.lvl)

\* C4: when Enabled(l) is true, Handle on a record of level l writes exactly one
\* record, whose level field is toBackend(l); a minimum level overrides the
\* logger's own level.
C4_EnabledIsWritten ==
    (last.op = "Handle" /\ Enabled(hs[last.h], last.lvl)) =>
        /\ out.n = last.n0 + 1
        /\ out.buf[1] = LevelField(Bucket(last.lvl))

\* A logger at Info with a minimum below Debug writes a Trace record.
C4_Witness ==
    /\ Wrote
    /\ hs[last.h].logger.level = InfoLevel
    /\ LastOpts.Level.set
    /\ LastOpts.Level.lvl < LevelDebug
    /\ last.lvl < LevelDebug
    /\ out.buf[1].v = "trace"

\* C5 as stated: every zero-child group, logged on a record or bound with
\* WithAttrs, is a key mapped to an empty object in the record written.
C5_EmptyGroupKept ==
    Wrote => EmptyObjects(out.buf, AttrEmpty.key)
                 = BoundEmpty(chain[last.h]) + EmptyIn(last.args)

\* C5, amended: a zero-child group bound with WithAttrs is a key mapped to an
\* empty object in every record the handler writes; a zero-child group added to
\* a record is dropped by Record.AddAttrs, so Handle never sees it and the
\* record written has no such key.
C5_EmptyGroupBoundKeptLoggedDropped ==
    Wrote =>
        /\ EmptyObjects(out.buf, AttrEmpty.key) = BoundEmpty(chain[last.h])
        /\ EmptyIn(last.rec.attrs) = 0

C5_Witness ==
    /\ Wrote
    /\ BoundEmpty(chain[last.h]) = 1
    /\ EmptyIn(last.args) = 1
    /\ \E i \in 1..(Len(out.buf) - 1) : out.buf[i] = Open("empty") /\ out.buf[i + 1] = Close

\* C6: Handle closes every open group before the timestamp and the message,
\* which are the last two fields of the record and lie at depth zero, whatever
\* WithGroup/WithAttrs calls made the handler and whatever the record holds.
C6_TimeMessageTopLevel ==
    Wrote =>
        LET b == out.buf
            n == Len(b)
        IN  /\ out.open = 0
            /\ n >= 3
            /\ b[n - 1] = TimeField /\ DepthAt(b, n - 1) = 0
            /\ b[n] = MessageField /\ DepthAt(b, n) = 0
            /\ \A i \in 1..n :
                  (b[i].t = "field" /\ b[i].k \in {TimestampFieldName, MessageFieldName})
                      => DepthAt(b, i) = 0

\* Two groups open on the handler, and the record's last attribute is a group.
C6_Witness ==
    /\ Wrote
    /\ Len(hs[last.h].logger.groups) = 2
    /\ Len(last.rec.attrs) > 0
    /\ last.rec.attrs[Len(last.rec.attrs)].kind = "Group"
    /\ DepthAt(out.buf, Len(out.buf)) = 0

\* C7: the record written is the level, then the bound attributes and groups
\* layered in the order of the WithAttrs/WithGroup calls, with the record's
\* attributes in the record's order inside the innermost group, then (the
\* groups closed) the timestamp and the message.
C7_LayeredInCallOrder ==
    Wrote =>
        out.buf = <<LevelField(Bucket(last.lvl))>>
                  \o Layered(chain[last.h], Flat(last.rec.attrs) \o CallerFields)
                  \o <<TimeField, MessageField>>

\* The test's handler: WithAttrs(attr).WithGroup(testgroup).WithAttrs(attr)
\* .WithGroup(subgroup), and a record with attributes.
C7_Witness ==
    /\ Wrote
    /\ chain[last.h] = <<ChainAttrs(<<Attr1>>), ChainGroup("testgroup"),
                         ChainAttrs(<<Attr1>>), ChainGroup("subgroup")>>
    /\ last.rec.attrs = <<Attr1, AttrGroup>>
    /\ out.buf = <<LevelField(WarnLevel),
                   Field("attr", "Str", "the attr"),
                   Open("testgroup"),
                   Field("attr", "Str", "the attr"),
                   Open("subgroup"),
                   Field("attr", "Str", "the attr"),
                   Open("group"), Field("bar", "Str", "baz"), Close,
                   Close, Close,
                   Field(TimestampFieldName, "Time", "now"),
                   Field(MessageFieldName, "Str", "foobar")>>

\* C8: a value of kind Any is written by the first entry of the probe it
\* matches (net.IP, net.IPNet, net.HardwareAddr, error, Stringer, JSON
\* marshaler, text marshaler, else the reflective fallback), on a record and on
\* a handler's bound context alike.
C8_FirstProbeWins ==
    /\ (Wrote /\ Len(last.args) > 0 /\ last.args[1].kind = "Any") =>
          /\ out.buf[2].k = last.args[1].key
          /\ PathOf(out.buf[2]) = FirstMatch(last.args[1].any)
    /\ \A i \in 2..Len(hs) :
          (chain[i][1].op = "WithAttrs" /\ BoundList(i)[1].kind = "Any") =>
              /\ hs[i].logger.context[1].k = BoundList(i)[1].key
              /\ PathOf(hs[i].logger.context[1]) = FirstMatch(BoundList(i)[1].any)

\* A JSON marshaler that is also a stringer goes the stringer's way.
C8_Witness ==
    /\ Wrote
    /\ Len(last.args) > 0
    /\ last.args[1].kind = "Any"
    /\ last.args[1].any.caps = {"fmt.Stringer", "json.Marshaler"}
    /\ out.buf[2] = Field("v", "Stringer", "stringer")

\* C9: when the JSON-marshal or text-marshal call of an Any value fails, the
\* field is the string "!ERROR:" followed by the error's message, not the bytes
\* returned; the attributes after it are written, the record is written, and
\* Handle returns no error.
C9_MarshalErrorField ==
    /\ (last.op = "Handle" /\ Len(last.args) > 0 /\ last.args[1].kind = "Any"
        /\ MarshalFails(last.args[1].any)) =>
          /\ out.n = last.n0 + 1
          /\ out.buf[2] = Field(last.args[1].key, "Str",
                                "!ERROR:" \o MarshalError(last.args[1].any))
          /\ SubSeq(out.buf, 3, Len(out.buf) - 2) = Flat(Tail(last.args))
          /\ last.err = NilErr
    /\ \A i \in 2..Len(hs) :
          (chain[i][1].op = "WithAttrs" /\ BoundList(i)[1].kind = "Any"
           /\ MarshalFails(BoundList(i)[1].any)) =>
              hs[i].logger.context
                  = <<Field(BoundList(i)[1].key, "Str",
                            "!ERROR:" \o MarshalError(BoundList(i)[1].any))>>
                    \o Flat(Tail(BoundList(i)))

\* The tests' json-err value: a JSON marshaler returning bytes and an error.
C9_Witness ==
    /\ Wrote
    /\ Len(last.args) = 2
    /\ last.args[1].kind = "Any"
    /\ last.args[1].any.caps = {"json.Marshaler"}
    /\ last.args[1].any.jerr = "json failure"
    /\ out.buf[2] = Field("v", "Str", "!ERROR:json failure")
    /\ out.buf[3] = Field("titi", "Str", "toto")

\* C10: WithAttrs and WithGroup leave every existing Handler and its options as
\* they were and give the new Handler the receiver's options; so a record
\* written by any handler holds the attributes and groups of its own chain of
\* calls and nothing bound on another chain.
C10_ReceiverUnchanged ==
    /\ [](Wrote =>
            SubSeq(out.buf, 2, Len(out.buf) - 2)
                = Layered(chain[last.h], Flat(last.rec.attrs) \o CallerFields))
    /\ [][/\ Len(hs') >= Len(hs)
          /\ \A i \in 1..Len(hs) : hs'[i] = hs[i]
          /\ optsHeap' = optsHeap
          /\ Len(hs') > Len(hs) => hs'[Len(hs')].opts = hs[last'.h].opts]_vars

\* Two handlers derived from the root on different chains, and then a record
\* written by the root: it holds the level, the timestamp and the message only.
C10_Witness ==
    /\ Wrote
    /\ last.h = 1
    /\ Len(hs) = 3
    /\ Len(chain[2]) = 1 /\ Len(chain[3]) = 1 /\ chain[2] # chain[3]
    /\ chain[2][1].op = "WithAttrs"
    /\ Len(out.buf) = 3

\* The places of buf that hold a call-site field.
CallerAt(buf) ==
    {i \in 1..Len(buf) : buf[i].t = "field" /\ buf[i].k = CallerFieldName}

\* C11: a record written holds the call-site field exactly when AddSource is
\* set and the record's program counter is not zero, and then once: right
\* after the record's attributes, inside every group open on the handler, and
\* followed by the closing of those groups, the timestamp and the message,
\* which lie at top level.
C11_CallerBeforeUngroup ==
    Wrote =>
        LET b == out.buf
            n == Len(b)
            g == Len(hs[last.h].logger.groups)
            ra == Flat(last.rec.attrs)
        IN  /\ Cardinality(CallerAt(b))
                 = (IF LastOpts.AddSource /\ last.rec.PC # 0 THEN 1 ELSE 0)
            /\ \A i \in CallerAt(b) :
                  /\ b[i] = Field(CallerFieldName, "Str", FrameOf(last.rec.PC))
                  /\ i = n - 2 - g
                  /\ DepthAt(b, i) = g
                  /\ SubSeq(b, i - Len(ra), i - 1) = ra
                  /\ \A j \in (i + 1)..(i + g) : b[j] = Close
                  /\ b[n - 1] = TimeField /\ DepthAt(b, n - 1) = 0
                  /\ b[n] = MessageField /\ DepthAt(b, n) = 0

\* A handler derived through WithGroup, AddSource set, a program counter, and
\* a record whose last attribute is a group: the call site is inside the group.
C11_Witness ==
    /\ Wrote
    /\ LastOpts.AddSource
    /\ last.rec.PC # 0
    /\ Len(hs[last.h].logger.groups) >= 1
    /\ Len(last.rec.attrs) = 2
    /\ last.rec.attrs[2].kind = "Group"
    /\ \E i \in CallerAt(out.buf) : DepthAt(out.buf, i) >= 1 /\ out.buf[i + 1] = Close

====
